---------------------------- MODULE Spec2Model ----------------------------
(***************************************************************************)
(* Model of the data ingestion layer of src/main.py: file discovery        *)
(* (normalize_str, find_file_fuzzy), the loader load_data and the load     *)
(* failure check at the head of main.                                      *)
(*                                                                         *)
(* A string is a sequence of Unicode code points.  A directory listing is  *)
(* a sequence of entries in iteration order; a path is an index into the   *)
(* listing and 0 stands for None.                                          *)
(***************************************************************************)
EXTENDS Integers, Sequences, FiniteSets, TLC

VARIABLES
    dirExists,     \* data_dir.exists()
    listing,       \* data_dir.iterdir(): sequence of [name, content]
    pc,            \* position in load_data / main
    i,             \* index into SCHOOL_CONFIG of the environmental loop
    env_dfs,       \* accumulator of accepted environmental tables
    env_final,     \* unified environmental dataset
    xlsx_path,     \* located workbook (index into listing, 0 = None)
    xls,           \* sheets of the workbook, in sheet order
    j,             \* index of the sheet being processed
    growth_dfs,    \* accumulator of attributed growth tables
    growth_final,  \* unified growth dataset
    log,           \* st.warning / st.error calls made so far
    ret,           \* (env_df, growth_df) as received by main
    f_keyword,     \* arguments and result of a stand-alone
    f_ext,         \*   find_file_fuzzy call
    f_result

vars == <<dirExists, listing, pc, i, env_dfs, env_final, xlsx_path, xls, j,
          growth_dfs, growth_final, log, ret, f_keyword, f_ext, f_result>>

(***************************************************************************)
(* Bounds of the model.                                                    *)
(***************************************************************************)
MaxRows == 2        \* data rows of a non-empty source table
MaxSheets == 4      \* sheets of a workbook
MaxListing == 2     \* entries of a listing handed to a stand-alone lookup

(***************************************************************************)
(* Unicode: Hangul canonical decomposition and composition, which is what  *)
(* unicodedata.normalize('NFC', s) does on the Hangul and ASCII names the  *)
(* program handles.                                                        *)
(***************************************************************************)
SBase == 44032
LBase == 4352
VBase == 4449
TBase == 4519
LCount == 19
VCount == 21
TCount == 28

IsL(c) == c >= LBase /\ c < LBase + LCount
IsV(c) == c >= VBase /\ c < VBase + VCount
IsT(c) == c > TBase /\ c < TBase + TCount
IsSyllable(c) == c >= SBase /\ c < SBase + LCount * VCount * TCount
IsLV(c) == IsSyllable(c) /\ (c - SBase) % TCount = 0

DecomposeChar(c) ==
    IF IsSyllable(c)
    THEN LET s == c - SBase
             l == LBase + s \div (VCount * TCount)
             v == VBase + (s % (VCount * TCount)) \div TCount
             t == TBase + (s % TCount)
         IN IF t = TBase THEN <<l, v>> ELSE <<l, v, t>>
    ELSE <<c>>

RECURSIVE NFD(_)
NFD(s) == IF s = <<>> THEN <<>> ELSE DecomposeChar(Head(s)) \o NFD(Tail(s))

ComposeStep(out, c) ==
    IF out # <<>> /\ IsL(out[Len(out)]) /\ IsV(c)
    THEN [out EXCEPT ![Len(out)] =
             SBase + ((out[Len(out)] - LBase) * VCount + (c - VBase)) * TCount]
    ELSE IF out # <<>> /\ IsLV(out[Len(out)]) /\ IsT(c)
    THEN [out EXCEPT ![Len(out)] = out[Len(out)] + (c - TBase)]
    ELSE Append(out, c)

RECURSIVE ComposeFrom(_, _)
ComposeFrom(out, s) ==
    IF s = <<>> THEN out ELSE ComposeFrom(ComposeStep(out, Head(s)), Tail(s))

NFC(s) == ComposeFrom(<<>>, NFD(s))

\* A plausible slip: the string is returned as it is.
normalize_str_raw(s) == s

normalize_str(s) == IF s = <<>> THEN s ELSE NFC(s)

(***************************************************************************)
(* Python string operations used by the program.                           *)
(***************************************************************************)
LowerChar(c) == IF c >= 65 /\ c <= 90 THEN c + 32 ELSE c
Lower(s) == [k \in 1..Len(s) |-> LowerChar(s[k])]

IsSpace(c) == c \in {9, 10, 11, 12, 13, 32}

RECURSIVE LStrip(_)
LStrip(s) == IF s # <<>> /\ IsSpace(Head(s)) THEN LStrip(Tail(s)) ELSE s

RECURSIVE RStrip(_)
RStrip(s) ==
    IF s # <<>> /\ IsSpace(s[Len(s)]) THEN RStrip(SubSeq(s, 1, Len(s) - 1)) ELSE s

Strip(s) == RStrip(LStrip(s))

RECURSIVE RemoveSpaces(_)
RemoveSpaces(s) ==
    IF s = <<>> THEN <<>>
    ELSE IF Head(s) = 32 THEN RemoveSpaces(Tail(s))
    ELSE <<Head(s)>> \o RemoveSpaces(Tail(s))

\* sub in s
Contains(sub, s) ==
    \E k \in 0..(Len(s) - Len(sub)) : SubSeq(s, k + 1, k + Len(sub)) = sub

\* s.endswith(suf)
EndsWith(s, suf) ==
    Len(suf) <= Len(s) /\ SubSeq(s, Len(s) - Len(suf) + 1, Len(s)) = suf

(***************************************************************************)
(* String literals of the program.                                         *)
(***************************************************************************)
Songdo == <<49569, 46020, 44256>>                  \* "송도고"
Haneul == <<54616, 45720, 44256>>                  \* "하늘고"
Ara == <<50500, 46972, 44256>>                     \* "아라고"
Dongsan == <<46041, 49328, 44256>>                 \* "동산고"
KwPrimary == <<49373, 50977, 44208, 44284>>        \* "생육결과"
KwFallback == <<52, 44060, 44368>>                 \* "4개교"
ExtCsv == <<46, 99, 115, 118>>                     \* ".csv"
ExtXlsx == <<46, 120, 108, 115, 120>>              \* ".xlsx"
ColTime == <<116, 105, 109, 101>>                  \* 'time'
ColTemperature == <<116, 101, 109, 112, 101, 114, 97, 116, 117, 114, 101>>
ColHumidity == <<104, 117, 109, 105, 100, 105, 116, 121>>
ColPh == <<112, 104>>                              \* 'ph'
ColEc == <<101, 99>>                               \* 'ec'
ColSchool == <<115, 99, 104, 111, 111, 108>>       \* 'school'
ColTargetEc == <<116, 97, 114, 103, 101, 116, 95, 101, 99>>  \* 'target_ec'

SCHOOL_CONFIG ==
    << [name |-> Songdo,  ec |-> 1, color |-> "#1f77b4"],
       [name |-> Haneul,  ec |-> 2, color |-> "#2ca02c"],
       [name |-> Ara,     ec |-> 4, color |-> "#ff7f0e"],
       [name |-> Dongsan, ec |-> 8, color |-> "#d62728"] >>

Schools == 1..Len(SCHOOL_CONFIG)

required_cols == <<ColTime, ColTemperature, ColHumidity, ColPh, ColEc>>

rename_map ==
    << [from |-> <<51086, 49688, 40, 51109, 41>>,                          \* '잎수(장)'
        to |-> <<108, 101, 97, 118, 101, 115>>],                            \* 'leaves'
       [from |-> <<51086, 49688>>,                                         \* '잎수'
        to |-> <<108, 101, 97, 118, 101, 115>>],
       [from |-> <<51648, 49345, 48512, 44600, 51060, 40, 109, 109, 41>>,  \* '지상부길이(mm)'
        to |-> <<104, 101, 105, 103, 104, 116, 95, 116, 111, 112>>],        \* 'height_top'
       [from |-> <<51648, 49345, 48512, 44600, 51060>>,                    \* '지상부길이'
        to |-> <<104, 101, 105, 103, 104, 116, 95, 116, 111, 112>>],
       [from |-> <<51648, 54616, 48512, 44600, 51060, 40, 109, 109, 41>>,  \* '지하부길이(mm)'
        to |-> <<104, 101, 105, 103, 104, 116, 95, 114, 111, 111, 116>>],   \* 'height_root'
       [from |-> <<51648, 54616, 48512, 44600, 51060>>,                    \* '지하부길이'
        to |-> <<104, 101, 105, 103, 104, 116, 95, 114, 111, 111, 116>>],
       [from |-> <<49373, 51473, 47049, 40, 103, 41>>,                     \* '생중량(g)'
        to |-> <<98, 105, 111, 109, 97, 115, 115>>],                        \* 'biomass'
       [from |-> <<49373, 51473, 47049>>,                                  \* '생중량'
        to |-> <<98, 105, 111, 109, 97, 115, 115>>],
       [from |-> <<44060, 52404, 48264, 54840>>,                           \* '개체번호'
        to |-> <<105, 100>>] >>                                             \* 'id'

\* df.rename(columns=rename_map) on one column label
Rename(h) ==
    IF \E k \in 1..Len(rename_map) : rename_map[k].from = h
    THEN rename_map[CHOOSE k \in 1..Len(rename_map) : rename_map[k].from = h].to
    ELSE h

(***************************************************************************)
(* find_file_fuzzy.  The result is the index of the entry returned, 0 for  *)
(* None.                                                                   *)
(***************************************************************************)
\* the test of one directory entry
FileMatches(name, target_keyword, target_ext) ==
    LET f_name == normalize_str(name)
    IN Contains(target_keyword, f_name) /\ EndsWith(Lower(f_name), target_ext)

RECURSIVE IterDir(_, _, _, _)
IterDir(entries, k, target_keyword, target_ext) ==
    IF k > Len(entries) THEN 0
    ELSE IF FileMatches(entries[k].name, target_keyword, target_ext) THEN k
    ELSE IterDir(entries, k + 1, target_keyword, target_ext)

find_file_fuzzy(exists, entries, keyword, extension) ==
    IF ~exists THEN 0
    ELSE IterDir(entries, 1, normalize_str(keyword), Lower(normalize_str(extension)))

(***************************************************************************)
(* Tables.  A DataFrame is its set of column labels and its sequence of    *)
(* rows; a row records the group tag, the target parameter, the source it  *)
(* was read from (src: the file's name, or the sheet's index) and its      *)
(* position in that source.  none marks Python's None.                     *)
(***************************************************************************)
NoneValue == [none |-> TRUE, columns |-> {}, rows |-> <<>>]

\* A plausible slip: an empty result that carries the canonical columns.
EmptyWithSchema ==
    [none |-> FALSE,
     columns |-> {ColTime, ColTemperature, ColHumidity, ColPh, ColEc,
                  ColSchool, ColTargetEc},
     rows |-> <<>>]

\* pd.DataFrame()
EmptyDataFrame == [none |-> FALSE, columns |-> {}, rows |-> <<>>]

\* df.empty
IsEmpty(df) == df.columns = {} \/ df.rows = <<>>

RECURSIVE ConcatRows(_)
ConcatRows(dfs) ==
    IF dfs = <<>> THEN <<>> ELSE Head(dfs).rows \o ConcatRows(Tail(dfs))

\* A plausible slip: the last table overwrites the earlier ones.
ConcatKeepLast(dfs) ==
    [none |-> FALSE,
     columns |-> dfs[Len(dfs)].columns,
     rows |-> dfs[Len(dfs)].rows]

\* pd.concat(dfs, ignore_index=True), dfs not empty
Concat(dfs) ==
    [none |-> FALSE,
     columns |-> UNION {dfs[k].columns : k \in 1..Len(dfs)},
     rows |-> ConcatRows(dfs)]

\* pd.to_datetime(..., errors='coerce') on one cell
ToDatetime(cell) == IF cell = "bad" THEN "NaT" ELSE cell

\* df.columns.str.strip().str.lower()
EnvColumns(header) == {Lower(Strip(header[k])) : k \in 1..Len(header)}

HasRequired(columns) == \A k \in 1..Len(required_cols) : required_cols[k] \in columns

\* A plausible slip: the rows are tagged with the first group's target value.
EnvTableFirstEc(g, src, content) ==
    [columns |-> EnvColumns(content.header) \cup {ColSchool, ColTargetEc},
     rows |-> [n \in 1..Len(content.times) |->
                  [school |-> SCHOOL_CONFIG[g].name,
                   target_ec |-> SCHOOL_CONFIG[1].ec,
                   src |-> src, n |-> n,
                   time |-> ToDatetime(content.times[n])]]]

\* the table appended to env_dfs for group g, read from the file named src
EnvTable(g, src, content) ==
    [columns |-> EnvColumns(content.header) \cup {ColSchool, ColTargetEc},
     rows |-> [n \in 1..Len(content.times) |->
                  [school |-> SCHOOL_CONFIG[g].name,
                   target_ec |-> SCHOOL_CONFIG[g].ec,
                   src |-> src, n |-> n,
                   time |-> ToDatetime(content.times[n])]]]

\* A plausible slip: the last group whose name is contained wins.
MatchedSchoolLast(norm_sheet) ==
    IF \E g \in Schools : Contains(SCHOOL_CONFIG[g].name, norm_sheet)
    THEN CHOOSE g \in Schools :
            /\ Contains(SCHOOL_CONFIG[g].name, norm_sheet)
            /\ \A h \in Schools :
                  Contains(SCHOOL_CONFIG[h].name, norm_sheet) => h <= g
    ELSE 0

\* the inner loop over SCHOOL_CONFIG.keys(): the first group whose name is
\* contained in the sheet name, 0 for None
RECURSIVE MatchFrom(_, _)
MatchFrom(g, norm_sheet) ==
    IF g > Len(SCHOOL_CONFIG) THEN 0
    ELSE IF Contains(SCHOOL_CONFIG[g].name, norm_sheet) THEN g
    ELSE MatchFrom(g + 1, norm_sheet)

MatchedSchool(norm_sheet) == MatchFrom(1, norm_sheet)

\* df.columns.str.replace(" ", "").str.strip(), then rename
GrowthColumns(header) ==
    {Rename(Strip(RemoveSpaces(header[k]))) : k \in 1..Len(header)}

\* the table appended to growth_dfs for sheet number s attributed to group g
GrowthTable(g, s, sheet) ==
    [columns |-> GrowthColumns(sheet.header) \cup {ColSchool, ColTargetEc},
     rows |-> [n \in 1..sheet.nrows |->
                  [school |-> SCHOOL_CONFIG[g].name,
                   target_ec |-> SCHOOL_CONFIG[g].ec,
                   src |-> s, n |-> n]]]

Warning(what, path) == [level |-> "warning", what |-> what, path |-> path]
Error(what, path) == [level |-> "error", what |-> what, path |-> path]

(***************************************************************************)
(* Inputs: the directories the model runs load_data on.                    *)
(***************************************************************************)
HeaderPlain == <<ColTime, ColTemperature, ColHumidity, ColPh, ColEc>>
HeaderMixed ==                       \* ' Time', 'TEMPERATURE ', 'Humidity', 'pH', 'EC'
    << <<32, 84, 105, 109, 101>>,
       <<84, 69, 77, 80, 69, 82, 65, 84, 85, 82, 69, 32>>,
       <<72, 117, 109, 105, 100, 105, 116, 121>>,
       <<112, 72>>,
       <<69, 67>> >>
HeaderNoHumidity == <<ColTime, ColTemperature, ColPh, ColEc>>
HeaderGrowth ==                      \* '개체번호', '잎수(장)', '생중량(g)'
    << <<44060, 52404, 48264, 54840>>,
       <<51086, 49688, 40, 51109, 41>>,
       <<49373, 51473, 47049, 40, 103, 41>> >>
HeaderGrowthSpaced ==                \* '개체번호', '잎수 (장)', '생중량(g) ', 'memo'
    << <<44060, 52404, 48264, 54840>>,
       <<51086, 49688, 32, 40, 51109, 41>>,
       <<49373, 51473, 47049, 40, 103, 41, 32>>,
       <<109, 101, 109, 111>> >>

Csv(header, times) ==
    [kind |-> "csv", status |-> "ok", header |-> header, times |-> times]
CsvUnreadable == [kind |-> "csv", status |-> "raise", header |-> <<>>, times |-> <<>>]
NoContent == [kind |-> "other"]

GoodTimes == [n \in 1..MaxRows |-> "ts"]
SomeBadTimes == [n \in 1..MaxRows |-> IF n = 1 THEN "bad" ELSE "ts"]

EnvVariants == {"absent", "plain", "empty", "nfd", "nohum", "raise", "dup", "shared"}

\* the directory entries of group g's environmental data
EnvEntries(g, v) ==
    LET school == SCHOOL_CONFIG[g].name
        next == SCHOOL_CONFIG[(g % Len(SCHOOL_CONFIG)) + 1].name
    IN CASE v = "absent" -> <<>>
         [] v = "plain"  -> << [name |-> school \o ExtCsv,
                                content |-> Csv(HeaderPlain, GoodTimes)] >>
         [] v = "empty"  -> << [name |-> school \o ExtCsv,
                                content |-> Csv(HeaderPlain, <<>>)] >>
         [] v = "nfd"    -> << [name |-> NFD(school) \o <<95, 69, 67, 46, 67, 83, 86>>,
                                content |-> Csv(HeaderMixed, SomeBadTimes)] >>
         [] v = "nohum"  -> << [name |-> school \o ExtCsv,
                                content |-> Csv(HeaderNoHumidity, GoodTimes)] >>
         [] v = "raise"  -> << [name |-> school \o ExtCsv,
                                content |-> CsvUnreadable] >>
         [] v = "dup"    -> << [name |-> school \o <<50>> \o ExtCsv,
                                content |-> Csv(HeaderNoHumidity, GoodTimes)],
                               [name |-> school \o ExtCsv,
                                content |-> Csv(HeaderPlain, GoodTimes)] >>
         [] v = "shared" -> << [name |-> school \o next \o ExtCsv,
                                content |-> Csv(HeaderPlain, GoodTimes)] >>

Sheet(name, strhdr, header, nrows) ==
    [name |-> name, strhdr |-> strhdr, header |-> header, nrows |-> nrows]

SheetPool ==
    { Sheet(Songdo, TRUE, HeaderGrowth, MaxRows),
      Sheet(Haneul \o <<50>>, TRUE, HeaderGrowthSpaced, 1),       \* "하늘고2"
      Sheet(NFD(Ara), TRUE, HeaderGrowth, 1),
      Sheet(Dongsan, TRUE, HeaderGrowth, 1),
      Sheet(Dongsan \o <<32>> \o Songdo, TRUE, HeaderGrowth, 1),  \* two group names
      Sheet(<<83, 104, 101, 101, 116, 49>>, FALSE, <<>>, 1),      \* "Sheet1"
      Sheet(Haneul, FALSE, <<>>, 1) }                             \* numeric column labels

RECURSIVE SeqsUpTo(_, _)
\* the sequences without repetition over S of length at most n
SeqsUpTo(S, n) ==
    IF n = 0 THEN {<<>>}
    ELSE LET shorter == SeqsUpTo(S, n - 1)
             longest == {q \in shorter : Len(q) = n - 1}
         IN shorter \cup
            {Append(e[1], e[2]) :
                e \in {d \in longest \X S : \A k \in 1..Len(d[1]) : d[1][k] # d[2]}}

Xlsx(sheets) == [kind |-> "xlsx", status |-> "ok", sheets |-> sheets]
XlsxUnreadable == [kind |-> "xlsx", status |-> "raise", sheets |-> <<>>]

Workbooks == {Xlsx(q) : q \in SeqsUpTo(SheetPool, MaxSheets)} \cup {XlsxUnreadable}

TwoSheets ==
    Xlsx(<< Sheet(Songdo, TRUE, HeaderGrowth, MaxRows),
            Sheet(Haneul \o <<50>>, TRUE, HeaderGrowthSpaced, 1) >>)

\* a workbook whose only sheet names no group
NoGroupSheet == Xlsx(<< Sheet(<<83, 104, 101, 101, 116, 49>>, FALSE, <<>>, 1) >>)

FewWorkbooks == {XlsxUnreadable, TwoSheets, NoGroupSheet}

WbLayouts == {"none", "primary", "fallback", "both", "wrong_ext"}

\* the directory entries of the growth workbook: named with the primary
\* keyword (decomposed form), with the fallback keyword, or both
WbEntries(layout, wb) ==
    LET primary == [name |-> NFD(KwPrimary) \o ExtXlsx, content |-> wb]
        fallback == [name |-> <<52, 44060, 44368, 95, 118, 50, 46, 88, 76, 83, 88>>,  \* "4개교_v2.XLSX"
                     content |-> wb]
        decoy == [name |-> <<52, 44060, 44368>> \o ExtXlsx,
                  content |-> Xlsx(<< Sheet(Dongsan, TRUE, HeaderGrowth, 1) >>)]
    IN CASE layout = "none" -> <<>>
         [] layout = "primary" -> <<primary>>
         [] layout = "fallback" -> <<fallback>>
         [] layout = "both" -> <<decoy, primary>>
         [] layout = "wrong_ext" ->
                << [name |-> KwPrimary \o <<46, 116, 120, 116>>, content |-> NoContent] >>

AllPlain == [g \in Schools |-> "plain"]
AllAbsent == [g \in Schools |-> "absent"]

\* every variant for the first two groups (only the first group's file may
\* carry a second group's name), the plainer ones for the last two
EnvChoices ==
    {c \in [Schools -> EnvVariants] :
        /\ \A g \in Schools : g > 1 => c[g] # "shared"
        /\ \A g \in Schools : g > 2 => c[g] \notin {"nfd", "dup"}}

RECURSIVE EnvListing(_, _)
EnvListing(choice, g) ==
    IF g > Len(SCHOOL_CONFIG) THEN <<>>
    ELSE EnvEntries(g, choice[g]) \o EnvListing(choice, g + 1)

Listings ==
    {EnvListing(c, 1) \o WbEntries(l, wb) :
        c \in EnvChoices, l \in {"none", "primary"}, wb \in {TwoSheets}}
    \cup
    {EnvListing(c, 1) \o WbEntries(l, wb) :
        c \in {AllPlain, AllAbsent}, l \in WbLayouts, wb \in FewWorkbooks}
    \cup
    {EnvListing(AllPlain, 1) \o WbEntries("primary", wb) : wb \in Workbooks}

\* inputs of a stand-alone find_file_fuzzy call
FindNames ==
    { Songdo \o ExtCsv,                                   \* "송도고.csv"
      NFD(Songdo) \o <<46, 67, 83, 86>>,                  \* decomposed, ".CSV"
      <<49548, 4540, 46020, 44256>> \o ExtCsv,            \* "소" + final jamo + "도고.csv"
      <<49569, 46020, 44273>> \o ExtCsv,                  \* "송도곱.csv"
      Songdo \o ExtXlsx,
      Haneul \o ExtCsv }
FindKeywords == {Songdo, NFD(Songdo), Haneul, <<49548>>, <<>>}     \* <<49548>> is "소"
FindExtensions == {ExtCsv, <<46, 67, 83, 86>>, ExtXlsx}

(***************************************************************************)
(* load_data and the head of main, step by step.                           *)
(***************************************************************************)
Init ==
    /\ dirExists \in BOOLEAN
    /\ listing \in Listings
    /\ pc = "load_data"
    /\ i = 0
    /\ env_dfs = <<>>
    /\ env_final = EmptyDataFrame
    /\ xlsx_path = 0
    /\ xls = <<>>
    /\ j = 0
    /\ growth_dfs = <<>>
    /\ growth_final = EmptyDataFrame
    /\ log = <<>>
    /\ ret = <<NoneValue, NoneValue>>
    /\ f_keyword = <<>>
    /\ f_ext = <<>>
    /\ f_result = 0

\* lines 76-83: the directory check
LoadStart ==
    /\ pc = "load_data"
    /\ IF ~dirExists
       THEN /\ log' = Append(log, Error("no_data_dir", 0))
            /\ ret' = <<NoneValue, NoneValue>>
            /\ pc' = "main_check"
            /\ UNCHANGED <<i, env_dfs>>
       ELSE /\ env_dfs' = <<>>
            /\ i' = 1
            /\ pc' = "env_loop"
            /\ UNCHANGED <<log, ret>>
    /\ UNCHANGED <<dirExists, listing, env_final, xlsx_path, xls, j, growth_dfs,
                   growth_final, f_keyword, f_ext, f_result>>

\* A plausible slip: a file that lacks required columns is appended all the same.
EnvAcceptedAny(content) == content.status = "ok"

\* the file parses and carries the required columns
EnvAccepted(content) ==
    content.status = "ok" /\ HasRequired(EnvColumns(content.header))

\* lines 85-108: one iteration of the loop over SCHOOL_CONFIG.items()
EnvLoadSchool ==
    /\ pc = "env_loop"
    /\ i <= Len(SCHOOL_CONFIG)
    /\ LET csv_path == find_file_fuzzy(dirExists, listing, SCHOOL_CONFIG[i].name, ExtCsv)
           content == listing[csv_path].content
       IN /\ IF csv_path # 0
             THEN IF content.status = "raise"
                  THEN /\ log' = Append(log, Error("csv_load_error", csv_path))
                       /\ UNCHANGED env_dfs
                  ELSE IF EnvAccepted(content)
                  THEN /\ env_dfs' = Append(env_dfs, EnvTable(i, listing[csv_path].name, content))
                       /\ UNCHANGED log
                  ELSE /\ log' = Append(log, Warning("missing_columns", csv_path))
                       /\ UNCHANGED env_dfs
             ELSE UNCHANGED <<env_dfs, log>>     \* pass
          /\ i' = i + 1
    /\ UNCHANGED <<dirExists, listing, pc, env_final, xlsx_path, xls, j, growth_dfs,
                   growth_final, ret, f_keyword, f_ext, f_result>>

\* line 110
EnvFinal(dfs) == IF dfs # <<>> THEN Concat(dfs) ELSE EmptyDataFrame

\* lines 110-113: the environmental merge, and growth_final's initial value
EnvConcat ==
    /\ pc = "env_loop"
    /\ i > Len(SCHOOL_CONFIG)
    /\ env_final' = EnvFinal(env_dfs)
    /\ growth_final' = EmptyDataFrame
    /\ pc' = "find_xlsx"
    /\ UNCHANGED <<dirExists, listing, i, env_dfs, xlsx_path, xls, j, growth_dfs,
                   log, ret, f_keyword, f_ext, f_result>>

\* A plausible slip: the fallback keyword is tried first.
LocateWorkbookFallbackFirst(exists, entries) ==
    LET fallback == find_file_fuzzy(exists, entries, KwFallback, ExtXlsx)
    IN IF fallback # 0 THEN fallback
       ELSE find_file_fuzzy(exists, entries, KwPrimary, ExtXlsx)

\* lines 116-118: the primary keyword, then the fallback keyword
LocateWorkbook(exists, entries) ==
    LET primary == find_file_fuzzy(exists, entries, KwPrimary, ExtXlsx)
    IN IF primary # 0 THEN primary
       ELSE find_file_fuzzy(exists, entries, KwFallback, ExtXlsx)

\* lines 116-120 and 161-162
FindWorkbook ==
    /\ pc = "find_xlsx"
    /\ xlsx_path' = LocateWorkbook(dirExists, listing)
    /\ IF xlsx_path' # 0
       THEN /\ pc' = "read_excel"
            /\ UNCHANGED log
       ELSE /\ log' = Append(log, Warning("no_workbook", 0))
            /\ pc' = "return"
    /\ UNCHANGED <<dirExists, listing, i, env_dfs, env_final, xls, j, growth_dfs,
                   growth_final, ret, f_keyword, f_ext, f_result>>

\* lines 121-125 (and 159-160 when read_excel raises)
ReadExcel ==
    /\ pc = "read_excel"
    /\ LET content == listing[xlsx_path].content
       IN IF content.status = "raise"
          THEN /\ log' = Append(log, Error("growth_load_error", xlsx_path))
               /\ pc' = "return"
               /\ UNCHANGED <<xls, growth_dfs, j>>
          ELSE /\ xls' = content.sheets
               /\ growth_dfs' = <<>>
               /\ j' = 1
               /\ pc' = "sheet_loop"
               /\ UNCHANGED log
    /\ UNCHANGED <<dirExists, listing, i, env_dfs, env_final, xlsx_path,
                   growth_final, ret, f_keyword, f_ext, f_result>>

\* lines 126-154: one iteration of the loop over xls.items(); an exception
\* leaves the loop for the handler of lines 159-160
ProcessSheet ==
    /\ pc = "sheet_loop"
    /\ j <= Len(xls)
    /\ LET norm_sheet == normalize_str(xls[j].name)
           matched_school == MatchedSchool(norm_sheet)
       IN IF matched_school # 0
          THEN IF ~xls[j].strhdr
               THEN \* df.columns.str raises on labels that are not strings
                    /\ log' = Append(log, Error("growth_load_error", xlsx_path))
                    /\ pc' = "return"
                    /\ UNCHANGED <<growth_dfs, j>>
               ELSE /\ growth_dfs' =
                          Append(growth_dfs, GrowthTable(matched_school, j, xls[j]))
                    /\ j' = j + 1
                    /\ UNCHANGED <<log, pc>>
          ELSE /\ j' = j + 1
               /\ UNCHANGED <<growth_dfs, log, pc>>
    /\ UNCHANGED <<dirExists, listing, i, env_dfs, env_final, xlsx_path, xls,
                   growth_final, ret, f_keyword, f_ext, f_result>>

\* lines 156-157
GrowthConcat ==
    /\ pc = "sheet_loop"
    /\ j > Len(xls)
    /\ growth_final' = IF growth_dfs # <<>> THEN Concat(growth_dfs) ELSE growth_final
    /\ pc' = "return"
    /\ UNCHANGED <<dirExists, listing, i, env_dfs, env_final, xlsx_path, xls, j,
                   growth_dfs, log, ret, f_keyword, f_ext, f_result>>

\* line 164, received by main at line 174
Return ==
    /\ pc = "return"
    /\ ret' = <<env_final, growth_final>>
    /\ pc' = "main_check"
    /\ UNCHANGED <<dirExists, listing, i, env_dfs, env_final, xlsx_path, xls, j,
                   growth_dfs, growth_final, log, f_keyword, f_ext, f_result>>

\* A plausible slip: either dataset being empty stops the application.
LoadFailedEither(env_df, growth_df) ==
    (env_df.none \/ IsEmpty(env_df)) \/ (growth_df.none \/ IsEmpty(growth_df))

\* the condition of line 177
LoadFailed(env_df, growth_df) ==
    (env_df.none \/ IsEmpty(env_df)) /\ (growth_df.none \/ IsEmpty(growth_df))

\* lines 177-181: stop, or go on to the sidebar and the tabs
MainCheck ==
    /\ pc = "main_check"
    /\ IF LoadFailed(ret[1], ret[2])
       THEN /\ log' = Append(log, Error("load_failed", 0))
            /\ pc' = "halted"
       ELSE /\ pc' = "sidebar"
            /\ UNCHANGED log
    /\ UNCHANGED <<dirExists, listing, i, env_dfs, env_final, xlsx_path, xls, j,
                   growth_dfs, growth_final, ret, f_keyword, f_ext, f_result>>

Next ==
    \/ LoadStart
    \/ EnvLoadSchool
    \/ EnvConcat
    \/ FindWorkbook
    \/ ReadExcel
    \/ ProcessSheet
    \/ GrowthConcat
    \/ Return
    \/ MainCheck

Spec == Init /\ [][Next]_vars

(***************************************************************************)
(* A stand-alone call of find_file_fuzzy on an arbitrary short listing.    *)
(***************************************************************************)
FindListings ==
    UNION {[1..n -> {[name |-> x, content |-> NoContent] : x \in FindNames}] :
              n \in 0..MaxListing}

InitFind ==
    /\ dirExists \in BOOLEAN
    /\ listing \in FindListings
    /\ f_keyword \in FindKeywords
    /\ f_ext \in FindExtensions
    /\ f_result = 0
    /\ pc = "find"
    /\ i = 0
    /\ env_dfs = <<>>
    /\ env_final = EmptyDataFrame
    /\ xlsx_path = 0
    /\ xls = <<>>
    /\ j = 0
    /\ growth_dfs = <<>>
    /\ growth_final = EmptyDataFrame
    /\ log = <<>>
    /\ ret = <<NoneValue, NoneValue>>

FindCall ==
    /\ pc = "find"
    /\ f_result' = find_file_fuzzy(dirExists, listing, f_keyword, f_ext)
    /\ pc' = "found"
    /\ UNCHANGED <<dirExists, listing, i, env_dfs, env_final, xlsx_path, xls, j,
                   growth_dfs, growth_final, log, ret, f_keyword, f_ext>>

NextFind == FindCall

SpecFind == InitFind /\ [][NextFind]_vars

(***************************************************************************)
(* Vocabulary of the properties.                                           *)
(***************************************************************************)
\* load_data has returned two datasets to main
Returned == dirExists /\ pc \in {"main_check", "halted", "sidebar"}

SchoolRows(df, g) == SelectSeq(df.rows, LAMBDA r : r.school = SCHOOL_CONFIG[g].name)
SourceRows(df, src) == SelectSeq(df.rows, LAMBDA r : r.src = src)
Tags(df) == {df.rows[k].school : k \in 1..Len(df.rows)}

\* the environmental file load_data locates for group g
Located(entries, g) == find_file_fuzzy(TRUE, entries, SCHOOL_CONFIG[g].name, ExtCsv)

\* a parsed table without one of the five required columns
LacksRequired(content) ==
    /\ content.status = "ok"
    /\ \E c \in {ColTime, ColTemperature, ColHumidity, ColPh, ColEc} :
          \A k \in 1..Len(content.header) : Lower(Strip(content.header[k])) # c

ValidEnvFile(entries, g) ==
    /\ Located(entries, g) # 0
    /\ entries[Located(entries, g)].content.status = "ok"
    /\ ~LacksRequired(entries[Located(entries, g)].content)

\* the environmental part of load_data (lines 83-110) as a function of the listing
RECURSIVE EnvDfsFrom(_, _)
EnvDfsFrom(entries, g) ==
    IF g > Len(SCHOOL_CONFIG) THEN <<>>
    ELSE LET p == Located(entries, g)
         IN (IF p # 0 /\ EnvAccepted(entries[p].content)
             THEN <<EnvTable(g, entries[p].name, entries[p].content)>>
             ELSE <<>>) \o EnvDfsFrom(entries, g + 1)

EnvOf(entries) == EnvFinal(EnvDfsFrom(entries, 1))

\* the listing with entry p's table given the five required columns
MadeValid(entries, p) == [entries EXCEPT ![p].content.header = HeaderPlain]

\* the listing with one more entry put at position k + 1
InsertAt(entries, k, e) ==
    SubSeq(entries, 1, k) \o <<e>> \o SubSeq(entries, k + 1, Len(entries))

\* the first group, in configuration order, whose name the sheet name contains
FirstGroup(sheet_name) ==
    LET in == {g \in Schools : Contains(SCHOOL_CONFIG[g].name, NFC(sheet_name))}
    IN IF in = {} THEN 0 ELSE CHOOSE g \in in : \A h \in in : g <= h

\* the rows a source of nrows rows contributes under group g's tag
TaggedIds(g, src, nrows) ==
    [n \in 1..nrows |-> <<SCHOOL_CONFIG[g].name, src, n>>]

RowIds(rows) == [k \in 1..Len(rows) |-> <<rows[k].school, rows[k].src, rows[k].n>>]

\* the rows group g should contribute to the environmental dataset
RECURSIVE ExpectedEnvIds(_)
ExpectedEnvIds(g) ==
    IF g > Len(SCHOOL_CONFIG) THEN <<>>
    ELSE (IF ValidEnvFile(listing, g)
          THEN TaggedIds(g, listing[Located(listing, g)].name,
                         Len(listing[Located(listing, g)].content.times))
          ELSE <<>>) \o ExpectedEnvIds(g + 1)

\* the entries a workbook lookup with this keyword may return
XlsxHits(keyword) ==
    {k \in 1..Len(listing) :
        /\ Contains(keyword, NFC(listing[k].name))
        /\ EndsWith(Lower(NFC(listing[k].name)), ExtXlsx)}

Min(S) == CHOOSE x \in S : \A y \in S : x <= y

WorkbookRead == xlsx_path # 0 /\ listing[xlsx_path].content.status = "ok"

(***************************************************************************)
(* C1                                                                      *)
(***************************************************************************)
\* C1: a group whose located environmental file lacks a required column
\* (after strip and lowercase of the header) contributes no row, a warning
\* naming the file is emitted, and every other group's rows are what they
\* would be had that file carried the required columns.
C1_MissingColumnsSkipped ==
    Returned =>
        \A g \in Schools :
            LET p == Located(listing, g)
            IN (p # 0 /\ LacksRequired(listing[p].content)) =>
                  /\ SchoolRows(ret[1], g) = <<>>
                  /\ \E k \in 1..Len(log) : log[k] = Warning("missing_columns", p)
                  /\ \A h \in Schools \ {g} :
                        Located(listing, h) # p =>
                            SchoolRows(ret[1], h)
                                = SchoolRows(EnvOf(MadeValid(listing, p)), h)

\* a rejected file between two groups that both contributed rows
C1_Witness ==
    /\ pc = "sidebar"
    /\ dirExists
    /\ \E g \in Schools :
          /\ Located(listing, g) # 0
          /\ LacksRequired(listing[Located(listing, g)].content)
          /\ \E a, b \in Schools :
                /\ a < g /\ g < b
                /\ SchoolRows(ret[1], a) # <<>>
                /\ SchoolRows(ret[1], b) # <<>>

(***************************************************************************)
(* C2                                                                      *)
(***************************************************************************)
NoEnvAccepted == env_dfs = <<>>
NoGrowthAccepted == xlsx_path = 0 \/ growth_dfs = <<>>

\* C2 as stated: with no accepted per-group table the returned dataset has
\* zero rows and still carries the canonical columns, the group tag among them.
C2_EmptyKeepsSchema ==
    Returned =>
        /\ NoEnvAccepted =>
              /\ ret[1].rows = <<>>
              /\ {ColSchool, ColTargetEc} \subseteq ret[1].columns
        /\ NoGrowthAccepted =>
              /\ ret[2].rows = <<>>
              /\ {ColSchool, ColTargetEc} \subseteq ret[2].columns

\* C2, amended: with no accepted per-group table the returned dataset has
\* zero rows and no column at all, so that df.empty is true.
C2_EmptyHasNoColumns ==
    Returned =>
        /\ NoEnvAccepted =>
              ret[1].rows = <<>> /\ ret[1].columns = {} /\ ~ret[1].none
        /\ NoGrowthAccepted =>
              ret[2].rows = <<>> /\ ret[2].columns = {} /\ ~ret[2].none

\* no environmental table accepted, and a workbook read whose sheets match no group
C2_Witness ==
    /\ Returned
    /\ NoEnvAccepted
    /\ WorkbookRead
    /\ Len(xls) > 0
    /\ j > Len(xls)
    /\ growth_dfs = <<>>

(***************************************************************************)
(* C3                                                                      *)
(***************************************************************************)
\* C3: a failure on one growth sheet or one environmental file skips only
\* that sheet or file: every other group's accepted file and every other
\* matched, well-formed sheet of a readable workbook has its rows in the
\* returned dataset.
C3_FailuresIsolated ==
    Returned =>
        /\ \A g \in Schools :
              ValidEnvFile(listing, g) =>
                  Len(SchoolRows(ret[1], g))
                      = Len(listing[Located(listing, g)].content.times)
        /\ WorkbookRead =>
              \A s \in 1..Len(listing[xlsx_path].content.sheets) :
                  LET sheet == listing[xlsx_path].content.sheets[s]
                  IN (FirstGroup(sheet.name) # 0 /\ sheet.strhdr) =>
                        Len(SourceRows(ret[2], s)) = sheet.nrows

(***************************************************************************)
(* C4                                                                      *)
(***************************************************************************)
TagsConfigured(df) ==
    \A k \in 1..Len(df.rows) :
        \E g \in Schools :
            /\ df.rows[k].school = SCHOOL_CONFIG[g].name
            /\ df.rows[k].target_ec = SCHOOL_CONFIG[g].ec

SheetsOfWorkbook == listing[xlsx_path].content.sheets

ScenarioA ==
    /\ \A g \in Schools :
          /\ ValidEnvFile(listing, g)
          /\ Len(listing[Located(listing, g)].content.times) >= 1
    /\ WorkbookRead
    /\ \A s \in 1..Len(SheetsOfWorkbook) : SheetsOfWorkbook[s].strhdr
    /\ \A g \in Schools : \E s \in 1..Len(SheetsOfWorkbook) :
          /\ FirstGroup(SheetsOfWorkbook[s].name) = g
          /\ SheetsOfWorkbook[s].nrows >= 1

Qualifies(name, keyword, extension) ==
    /\ Contains(NFC(keyword), NFC(name))
    /\ EndsWith(Lower(NFC(name)), Lower(extension))

\* the listings that differ from entries only in the composition form of names
Recomposed(entries) ==
    {q \in [1..Len(entries) -> {[name |-> x, content |-> NoContent] :
                                   x \in UNION {{NFC(entries[k].name), NFD(entries[k].name)} :
                                                   k \in 1..Len(entries)}}] :
        \A k \in 1..Len(entries) : q[k].name \in {NFC(entries[k].name), NFD(entries[k].name)}}

\* C5: find_file_fuzzy returns the first entry in listing order that
\* qualifies, None when none does or the directory does not exist, and the
\* result does not change when names or keyword change composition form.
C5_FindFirstMatch ==
    pc = "found" =>
        LET hits == {k \in 1..Len(listing) :
                        Qualifies(listing[k].name, f_keyword, f_ext)}
        IN /\ f_result = IF dirExists /\ hits # {} THEN Min(hits) ELSE 0
           /\ \A q \in Recomposed(listing) :
                 \A kw \in {NFC(f_keyword), NFD(f_keyword)} :
                     find_file_fuzzy(dirExists, q, kw, f_ext) = f_result

\* a decomposed name found, behind an entry that does not qualify, with a
\* composed keyword
C5_Witness ==
    /\ pc = "found"
    /\ f_result > 1
    /\ listing[f_result].name # NFC(listing[f_result].name)
    /\ f_keyword # <<>>
    /\ f_keyword = NFC(f_keyword)

SomeWorkbook ==
    [name |-> Songdo \o <<95>> \o KwPrimary \o ExtXlsx,
     content |-> Xlsx(<< Sheet(Songdo, TRUE, HeaderGrowth, 1) >>)]

\* C7: the workbook is the first hit of the primary keyword, and the first
\* hit of the fallback keyword only when the primary has none; with no hit at
\* all the growth dataset is empty, a warning is emitted, and the
\* environmental dataset is what it is with a workbook in the directory.
C7_WorkbookLookup ==
    (dirExists /\ pc \notin {"load_data", "env_loop", "find_xlsx"}) =>
        /\ xlsx_path = IF XlsxHits(KwPrimary) # {} THEN Min(XlsxHits(KwPrimary))
                       ELSE IF XlsxHits(KwFallback) # {} THEN Min(XlsxHits(KwFallback))
                       ELSE 0
        /\ (XlsxHits(KwPrimary) = {} /\ XlsxHits(KwFallback) = {}) =>
              /\ \E k \in 1..Len(log) : log[k] = Warning("no_workbook", 0)
              /\ growth_final.rows = <<>>
              /\ Returned =>
                    /\ ret[2].rows = <<>>
                    /\ \A k \in 0..Len(listing) :
                          ret[1] = EnvOf(InsertAt(listing, k, SomeWorkbook))

\* the fallback workbook is listed first and the primary one is taken
C7_WitnessPrimaryWins ==
    /\ Returned
    /\ XlsxHits(KwFallback) # {}
    /\ xlsx_path > Min(XlsxHits(KwFallback))

\* no workbook, and environmental rows returned
C7_Witness ==
    /\ pc = "sidebar"
    /\ XlsxHits(KwPrimary) = {} /\ XlsxHits(KwFallback) = {}
    /\ ret[1].rows # <<>>
    /\ \E k \in 1..Len(listing) : Contains(KwPrimary, listing[k].name)

(***************************************************************************)
(* C8                                                                      *)
(***************************************************************************)
\* C8: the environmental dataset is the concatenation, in configuration
\* order, of the accepted per-group tables, each row once and in source order;
\* a group without a file contributes no row.
C8_EnvIsConcatenation ==
    Returned =>
        /\ RowIds(ret[1].rows) = ExpectedEnvIds(1)
        /\ \A g \in Schools :
              Located(listing, g) = 0 => SchoolRows(ret[1], g) = <<>>

\* a group without a file between two groups that contributed rows
C8_Witness ==
    /\ pc = "sidebar"
    /\ dirExists
    /\ \E g \in Schools :
          /\ Located(listing, g) = 0
          /\ \E a, b \in Schools :
                /\ a < g /\ g < b
                /\ Len(SchoolRows(ret[1], a)) > 1
                /\ SchoolRows(ret[1], b) # <<>>

(***************************************************************************)
(* C9                                                                      *)
(***************************************************************************)
\* C9: the loop iteration of a group whose environmental file is not found
\* logs a notice.
C9_MissingFileNoticed ==
    [][(pc = "env_loop" /\ i <= Len(SCHOOL_CONFIG) /\ Located(listing, i) = 0)
          => Len(log') > Len(log)]_vars

(***************************************************************************)
(* C10                                                                     *)
(***************************************************************************)
\* C10: main stops with an error exactly when the data directory is missing
\* or both returned datasets have no row; otherwise it goes on to the views.
C10_HaltIffNoData ==
    pc \in {"halted", "sidebar"} =>
        /\ pc = "halted" <=>
              (~dirExists \/ (Len(ret[1].rows) = 0 /\ Len(ret[2].rows) = 0))
        /\ pc = "halted" => log[Len(log)] = Error("load_failed", 0)
        /\ pc = "sidebar" =>
              \A k \in 1..Len(log) : log[k] # Error("load_failed", 0)

\* one dataset empty, the other not: the application goes on
C10_Witness ==
    /\ pc = "sidebar"
    /\ (ret[1].rows = <<>>) # (ret[2].rows = <<>>)

\* the directory is there and nothing was loaded: the application stops
C10_WitnessHalted == pc = "halted" /\ dirExists /\ Len(listing) > 0

==========================================================================
